---- MODULE Spec2Model ----
(***************************************************************************)
(* claudio: layered JSON settings (project-local, project-shared, user),   *)
(* the per-name project merge, the validator, the Claude env resolver and  *)
(* the persisted last selection.  Modelled from src/src/claudio.           *)
(***************************************************************************)
EXTENDS Integers, Sequences, FiniteSets, TLC

VARIABLES
    pc,         \* position of the modelled command: "start", then the operation that ran
    gitRoot,    \* TRUE when `git rev-parse --show-toplevel` succeeds (_find_git_root)
    fs,         \* the six settings files: path -> file content
    config,     \* outcome of merged_claudio_config()
    remerged,   \* outcome of merging config again as a layer of its own
    arg,        \* the dict handed to validate_projects
    validated,  \* outcome of validate_projects(arg)
    baseEnv,    \* outcome of highest_claude_env()
    launch,     \* the env handed to `claude --settings` by the last run (null: no --settings)
    config0,    \* outcome of merged_claudio_config() before any selection was persisted
    user0,      \* what load_user_settings() returned before any selection was persisted
    runs        \* number of runs of main() so far

vars == <<pc, gitRoot, fs, config, remerged, arg, validated, baseEnv, launch, config0, user0, runs>>

(***************************************************************************)
(* JSON values.  A value is a tagged record; an object is a function from  *)
(* the keys the model uses to values, with Absent for a key that is not in *)
(* the dict (`k in d` is d[k] # Absent, d.get(k) is None exactly when      *)
(* d[k] \in {Absent, Null}).                                               *)
(***************************************************************************)
Absent == [t |-> "absent"]
Null == [t |-> "null"]
Str(s) == [t |-> "str", s |-> s]
Num(n) == [t |-> "num", n |-> n]
Arr(q) == [t |-> "arr", a |-> q]
Obj(f) == [t |-> "obj", o |-> f]

TopKeys == <<"projects", "lastProject", "env">>
ProjKeys == {"name", "env", "model"}
EnvKeys == {"KEY", "OTHER"}

EmptyTop == [k \in {TopKeys[i] : i \in 1..Len(TopKeys)} |-> Absent]
EmptyDict == Obj(EmptyTop)
\* {} where an env mapping is expected.
EmptyEnv == Obj([k \in EnvKeys |-> Absent])

\* Python truthiness of a parsed JSON value (`if data:`, `if not config:`).
Truthy(v) ==
    CASE v.t = "obj" -> \E k \in DOMAIN v.o : v.o[k] # Absent
      [] v.t = "arr" -> Len(v.a) > 0
      [] v.t = "str" -> v.s # ""
      [] v.t = "num" -> v.n # 0
      [] OTHER -> FALSE

\* isinstance(v, dict) / isinstance(v, str) / isinstance(v, list)
IsDict(v) == v.t = "obj"
IsStr(v) == v.t = "str"
IsList(v) == v.t = "arr"

\* {**a, **b} on two dicts over the same key universe.
DictUnion(a, b) == [k \in DOMAIN a |-> IF b[k] # Absent THEN b[k] ELSE a[k]]

(***************************************************************************)
(* Outcomes of a call: a returned value or a raised exception.             *)
(***************************************************************************)
Returned(v) == [k |-> "return", v |-> v]
Raised(e) == [k |-> "raise", exc |-> e]
NotRun == [k |-> "none"]

(***************************************************************************)
(* Files.  A file is missing, holds text that is not JSON, or holds a JSON *)
(* document: an object written as a sequence of members (a key may be      *)
(* written twice) or a non-object value.                                   *)
(***************************************************************************)
Missing == [f |-> "missing"]
Invalid == [f |-> "invalid"]
ObjectText(members) == [f |-> "object", members |-> members]
ValueText(v) == [f |-> "value", v |-> v]

RECURSIVE ParseMembers(_, _)
ParseMembers(members, acc) ==
    IF members = <<>> THEN acc
    ELSE ParseMembers(Tail(members), [acc EXCEPT ![Head(members)[1]] = Head(members)[2]])

\* json.loads on the text of a file that parses: a later member replaces an
\* earlier one with the same key.
json_loads(file) ==
    IF file.f = "object" THEN Obj(ParseMembers(file.members, EmptyTop)) ELSE file.v

\* json.dumps(settings, indent=2) + "\n" of a dict: one member per key it holds.
json_dumps(d) ==
    ObjectText(SelectSeq([i \in 1..Len(TopKeys) |-> <<TopKeys[i], d.o[TopKeys[i]]>>],
                         LAMBDA m : m[2] # Absent))

\* Lines 48-52: FileNotFoundError and JSONDecodeError give {}; any parsed value,
\* object or not, is returned as it is.  (A file that cannot be read or decoded
\* as text is not among the files modelled.)
_load_json(file) ==
    IF file.f \in {"missing", "invalid"} THEN EmptyDict ELSE json_loads(file)

(***************************************************************************)
(* Paths and layers.                                                       *)
(***************************************************************************)
Path(dir, name) == [dir |-> dir, name |-> name]
ClaudioShared == "claudio.settings.json"
ClaudioLocal == "claudio.settings.local.json"
ClaudeShared == "settings.json"
ClaudeLocal == "settings.local.json"
Paths ==
    {Path("project", n) : n \in {ClaudioShared, ClaudioLocal, ClaudeShared, ClaudeLocal}}
        \cup {Path("user", n) : n \in {ClaudioShared, ClaudeShared}}

ConfigLayer(label, path, data) == [label |-> label, path |-> path, data |-> data]

_config_layers(root, fsys, shared_name, local_name) ==
    LET local_path == Path("project", local_name)
        shared_path == Path("project", shared_name)
        user_path == Path("user", shared_name)
        local == IF root /\ Truthy(_load_json(fsys[local_path]))
                 THEN <<ConfigLayer("project-local", local_path, _load_json(fsys[local_path]))>>
                 ELSE <<>>
        shared == IF root /\ Truthy(_load_json(fsys[shared_path]))
                  THEN <<ConfigLayer("project-shared", shared_path, _load_json(fsys[shared_path]))>>
                  ELSE <<>>
        user == IF Truthy(_load_json(fsys[user_path]))
                THEN <<ConfigLayer("user", user_path, _load_json(fsys[user_path]))>>
                ELSE <<>>
    IN  local \o shared \o user

claude_config_layers(root, fsys) == _config_layers(root, fsys, ClaudeShared, ClaudeLocal)
claudio_config_layers(root, fsys) == _config_layers(root, fsys, ClaudioShared, ClaudioLocal)

(***************************************************************************)
(* merged_claudio_config.                                                  *)
(***************************************************************************)
\* `key in data`: a dict holds the key, a list holds the string as an element,
\* anything else that reaches here (a number, true) is not iterable.
Contains(data, key) ==
    CASE data.t = "obj" -> Returned(data.o[key] # Absent)
      [] data.t = "arr" -> Returned(\E i \in 1..Len(data.a) : data.a[i] = Str(key))
      [] OTHER -> Raised("TypeError")

\* Faulty variant: the lowest layer that has a projects key decides.
defining_data_lowest(layers) ==
    LET has == {i \in 1..Len(layers) : Contains(layers[i].data, "projects") = Returned(TRUE)}
    IN  IF has = {} THEN Returned(Null)
        ELSE Returned(layers[CHOOSE i \in has : \A j \in has : j <= i].data)

\* next((data for _label, _path, data in layers if "projects" in data), None)
RECURSIVE defining_data(_)
defining_data(layers) ==
    IF layers = <<>> THEN Returned(Null)
    ELSE LET has == Contains(Head(layers).data, "projects")
         IN  IF has.k = "raise" THEN has
             ELSE IF has.v THEN Returned(Head(layers).data)
             ELSE defining_data(Tail(layers))

RECURSIVE SetToSeq(_)
SetToSeq(S) ==
    IF S = {} THEN <<>> ELSE LET x == CHOOSE y \in S : TRUE IN <<x>> \o SetToSeq(S \ {x})

\* What `for proj in v` visits: the elements of a list, the keys of a dict, the
\* characters of a string (here the string stands for its first character: the
\* loops below raise on it); None and numbers are not iterable.
Iterate(v) ==
    CASE v.t = "arr" -> Returned(v.a)
      [] v.t = "obj" -> Returned(SetToSeq({Str(k) : k \in {j \in DOMAIN v.o : v.o[j] # Absent}}))
      [] v.t = "str" -> Returned(IF v.s = "" THEN <<>> ELSE <<v>>)
      [] OTHER -> Raised("TypeError")

\* data.get("projects", [])
GetProjects(data) ==
    IF ~IsDict(data) THEN Raised("AttributeError")
    ELSE Returned(IF data.o["projects"] = Absent THEN Arr(<<>>) ELSE data.o["projects"])

EmptyProj == [k \in ProjKeys |-> Absent]

\* projects_by_name.get(name, {})
Existing(acc, name) == IF name \in DOMAIN acc THEN acc[name] ELSE EmptyProj

\* Faulty variant: the env of the higher layer replaces the lower one wholesale.
merged_proj_shallow(existing, proj) == DictUnion(existing, proj)

\* Faulty variant: the entry of the higher layer replaces the lower one wholesale.
merged_proj_replace(existing, proj) == proj

\* Lines 137-141: the merged entry for one project entry of one layer.
merged_proj(existing, proj) ==
    LET shallow == DictUnion(existing, proj)
    IN  IF IsDict(existing["env"]) /\ IsDict(proj["env"])
        THEN [shallow EXCEPT !["env"] = Obj(DictUnion(existing["env"].o, proj["env"].o))]
        ELSE shallow

\* isinstance(name, str), the test of lines 135 and 148.
ValidName(name) == IsStr(name)

\* The inner loop, lines 133-142, over the entries of one layer.
RECURSIVE MergeEntries(_, _)
MergeEntries(items, acc) ==
    IF items = <<>> THEN Returned(acc)
    ELSE LET proj == Head(items)
         IN  IF ~IsDict(proj) THEN Raised("AttributeError")
             ELSE IF ~ValidName(proj.o["name"]) THEN MergeEntries(Tail(items), acc)
             ELSE LET name == proj.o["name"].s
                      m == merged_proj(Existing(acc, name), proj.o)
                  IN  MergeEntries(Tail(items),
                                   [n \in DOMAIN acc \cup {name} |-> IF n = name THEN m ELSE acc[n]])

\* The outer loop, line 132, over reversed(layers): `ls` is already reversed.
RECURSIVE MergeLayers(_, _)
MergeLayers(ls, acc) ==
    IF ls = <<>> THEN Returned(acc)
    ELSE LET got == GetProjects(Head(ls).data)
         IN  IF got.k = "raise" THEN got
             ELSE LET items == Iterate(got.v)
                  IN  IF items.k = "raise" THEN items
                      ELSE LET r == MergeEntries(items.v, acc)
                           IN  IF r.k = "raise" THEN r ELSE MergeLayers(Tail(ls), r.v)

Reverse(q) == [i \in 1..Len(q) |-> q[Len(q) + 1 - i]]

NoProjects == [n \in {} |-> EmptyProj]

\* Lines 145-149: the names of the defining layer, in its order.
defining_names(data) ==
    LET items == Iterate(GetProjects(data).v).v
        valid == SelectSeq(items, LAMBDA p : ValidName(p.o["name"]))
    IN  [i \in 1..Len(valid) |-> valid[i].o["name"].s]

\* Faulty variant: the projects come out in the reverse of the defining order.
EmitProjects_reversed(names, by_name) ==
    LET kept == SelectSeq(names, LAMBDA n : n \in DOMAIN by_name)
    IN  [i \in 1..Len(kept) |-> Obj(by_name[kept[Len(kept) + 1 - i]])]

\* Line 150.
EmitProjects(names, by_name) ==
    LET kept == SelectSeq(names, LAMBDA n : n \in DOMAIN by_name)
    IN  [i \in 1..Len(kept) |-> Obj(by_name[kept[i]])]

WithProjects(projects) == Obj([EmptyTop EXCEPT !["projects"] = Arr(projects)])

merged_claudio_config(layers) ==
    IF layers = <<>> THEN Returned(EmptyDict)
    ELSE LET def == defining_data(layers)
         IN  IF def.k = "raise" THEN def
             ELSE IF def.v = Null THEN Returned(EmptyDict)
             ELSE LET by_name == MergeLayers(Reverse(layers), NoProjects)
                  IN  IF by_name.k = "raise" THEN by_name
                      ELSE LET projects == EmitProjects(defining_names(def.v), by_name.v)
                           IN  IF projects = <<>> THEN Returned(EmptyDict)
                               ELSE Returned(WithProjects(projects))

(***************************************************************************)
(* highest_claude_env.                                                     *)
(***************************************************************************)
\* Line 96: return None, {}
NoEnv == [path |-> Null, env |-> EmptyEnv]

\* data["env"] once `"env" in data` held: a list cannot be indexed by a string.
GetEnv(data) == IF IsDict(data) THEN Returned(data.o["env"]) ELSE Raised("TypeError")

\* Faulty variant: any env that is there qualifies, object or not.
HasEnvDict_any(data) ==
    LET has == Contains(data, "env")
    IN  IF has.k = "raise" THEN has
        ELSE IF ~has.v THEN Returned(FALSE)
        ELSE IF GetEnv(data).k = "raise" THEN GetEnv(data) ELSE Returned(TRUE)

\* Line 94: "env" in data and isinstance(data["env"], dict)
HasEnvDict(data) ==
    LET has == Contains(data, "env")
    IN  IF has.k = "raise" THEN has
        ELSE IF ~has.v THEN Returned(FALSE)
        ELSE LET env == GetEnv(data)
             IN  IF env.k = "raise" THEN env ELSE Returned(IsDict(env.v))

RECURSIVE highest_claude_env(_)
highest_claude_env(layers) ==
    IF layers = <<>> THEN Returned(NoEnv)
    ELSE LET ok == HasEnvDict(Head(layers).data)
         IN  IF ok.k = "raise" THEN ok
             ELSE IF ok.v THEN Returned([path |-> Head(layers).path, env |-> Head(layers).data.o["env"]])
             ELSE highest_claude_env(Tail(layers))

(***************************************************************************)
(* validate_projects.                                                      *)
(***************************************************************************)
ConfigError(msg) == [k |-> "raise", exc |-> "ConfigError", msg |-> msg]

\* Lines 196-200: the first env value that is not a string.
BadEnvValue(env) == \E k \in DOMAIN env.o : env.o[k] # Absent /\ ~IsStr(env.o[k])

\* Faulty variant: an empty name passes.
entry_error_any_name(proj) ==
    IF ~IsDict(proj) THEN "must be an object"
    ELSE IF ~IsStr(proj.o["name"]) THEN "name must be a non-empty string"
    ELSE IF proj.o["env"] # Absent /\ ~IsDict(proj.o["env"]) THEN "env must be an object"
    ELSE IF proj.o["env"] # Absent /\ BadEnvValue(proj.o["env"]) THEN "env value must be a string"
    ELSE "ok"

\* Lines 189-200 for one element: the error it raises, or "ok".
\* proj.get("env", {}) is the env when the key is there (None for null).
entry_error(proj) ==
    IF ~IsDict(proj) THEN "must be an object"
    ELSE IF ~IsStr(proj.o["name"]) \/ proj.o["name"].s = "" THEN "name must be a non-empty string"
    ELSE IF proj.o["env"] # Absent /\ ~IsDict(proj.o["env"]) THEN "env must be an object"
    ELSE IF proj.o["env"] # Absent /\ BadEnvValue(proj.o["env"]) THEN "env value must be a string"
    ELSE "ok"

\* The loop of line 188 from element i on.
RECURSIVE CheckFrom(_, _)
CheckFrom(projects, i) ==
    IF i > Len(projects) THEN "ok"
    ELSE IF entry_error(projects[i]) # "ok" THEN entry_error(projects[i])
    ELSE CheckFrom(projects, i + 1)

validate_projects(data) ==
    LET projects == data.o["projects"]
    IN  IF ~IsList(projects) \/ Len(projects.a) = 0
        THEN ConfigError("'projects' must be a non-empty array")
        ELSE IF CheckFrom(projects.a, 1) # "ok" THEN ConfigError(CheckFrom(projects.a, 1))
        ELSE Returned(projects)

(***************************************************************************)
(* select_project and main.                                                *)
(***************************************************************************)
_user_settings_path == Path("user", ClaudioShared)
load_user_settings(fsys) == _load_json(fsys[_user_settings_path])
save_user_settings(fsys, settings) == [fsys EXCEPT ![_user_settings_path] = json_dumps(settings)]

\* Lines 24-29: the 0-based index of the first project named `last`, else 0.
default_idx(projects, last) ==
    LET hits == {i \in 1..Len(projects) : projects[i].o["name"] = last}
    IN  IF last \in {Absent, Null} \/ hits = {} THEN 0
        ELSE (CHOOSE i \in hits : \A j \in hits : i <= j) - 1

\* Lines 37-56: the 0-based choice, or -1 where select_project returns None
\* (Ctrl-C or EOF, text that is no integer, a number out of range).
Choice(raw, dflt, n) ==
    CASE raw.kind = "eof" -> -1
      [] raw.kind = "empty" -> dflt
      [] raw.kind = "text" -> -1
      [] raw.kind = "int" -> IF raw.n - 1 < 0 \/ raw.n - 1 >= n THEN -1 ELSE raw.n - 1

\* Faulty variant: the selection is written to a fresh dict, not to the loaded one.
WithLastProject_fresh(settings, name) == Obj([EmptyTop EXCEPT !["lastProject"] = name])

\* Line 61: settings["lastProject"] = selected["name"]
WithLastProject(settings, name) == Obj([settings.o EXCEPT !["lastProject"] = name])

\* select_project(projects) on the typed line `raw`: what it returns and the
\* files it leaves.
select_project(projects, fsys, raw) ==
    LET settings == load_user_settings(fsys)
    IN  IF ~IsDict(settings) THEN [result |-> Raised("AttributeError"), fs |-> fsys]
        ELSE LET choice == Choice(raw, default_idx(projects, settings.o["lastProject"]), Len(projects))
             IN  IF choice = -1 THEN [result |-> Returned(Null), fs |-> fsys]
                 ELSE [result |-> Returned(projects[choice + 1]),
                       fs |-> save_user_settings(fsys,
                                  WithLastProject(settings, projects[choice + 1].o["name"]))]

Ended(how, cfg, val, base, env, fsys) ==
    [pc |-> how, config |-> cfg, validated |-> val, baseEnv |-> base, launch |-> env, fs |-> fsys]

\* cli.py lines 55-63, once a project is selected.
Launch(cfg, val, selected, root, fsys) ==
    LET project_env == IF selected.o["env"] = Absent THEN EmptyEnv ELSE selected.o["env"]
    IN  IF ~Truthy(project_env) THEN Ended("exec", cfg, val, NotRun, Returned(Null), fsys)
        ELSE LET base == highest_claude_env(claude_config_layers(root, fsys))
             IN  IF base.k = "raise" THEN Ended("crash", cfg, val, base, NotRun, fsys)
                 ELSE Ended("exec", cfg, val, base,
                            Returned(Obj(DictUnion(base.v.env.o, project_env.o))), fsys)

\* cli.py main() on the typed line `raw`.
main(root, fsys, raw) ==
    LET cfg == merged_claudio_config(claudio_config_layers(root, fsys))
    IN  IF cfg.k = "raise" THEN Ended("crash", cfg, NotRun, NotRun, NotRun, fsys)
        ELSE IF ~Truthy(cfg.v) THEN Ended("exec", cfg, NotRun, NotRun, Returned(Null), fsys)
        ELSE LET val == validate_projects(cfg.v)
             IN  IF val.k = "raise" THEN Ended("exit 1", cfg, val, NotRun, NotRun, fsys)
                 ELSE IF Len(val.v.a) = 1 THEN Launch(cfg, val, val.v.a[1], root, fsys)
                 ELSE LET sel == select_project(val.v.a, fsys, raw)
                      IN  IF sel.result.k = "raise"
                          THEN Ended("crash", cfg, val, NotRun, NotRun, sel.fs)
                          ELSE IF sel.result.v = Null
                          THEN Ended("exit 130", cfg, val, NotRun, NotRun, sel.fs)
                          ELSE Launch(cfg, val, sel.result.v, root, sel.fs)

(***************************************************************************)
(* Inputs: the files a run may find.  Values written by a layer carry the  *)
(* layer's label, so that the origin of a merged value can be read off.    *)
(***************************************************************************)
MaxEntries == 3

Labels == <<"project-local", "project-shared", "user">>
ClaudioPath(label) ==
    CASE label = "project-local" -> Path("project", ClaudioLocal)
      [] label = "project-shared" -> Path("project", ClaudioShared)
      [] label = "user" -> Path("user", ClaudioShared)
ClaudePath(label) ==
    CASE label = "project-local" -> Path("project", ClaudeLocal)
      [] label = "project-shared" -> Path("project", ClaudeShared)
      [] label = "user" -> Path("user", ClaudeShared)

Entry(name, env, model) == Obj([name |-> name, env |-> env, model |-> model])
Env(key, val) == Obj([k \in EnvKeys |-> IF k = key THEN val ELSE Absent])

\* Entries that differ in their name: missing, not a string, empty, "a", "b".
NameEntries(l) ==
    {Entry(n, Absent, Str(l)) : n \in {Absent, Num(7), Str(""), Str("a")}}
        \cup {Entry(n, Absent, Absent) : n \in {Str("a"), Str("b")}}

\* Entries that differ in their env: missing, null, {}, {KEY: l}, {OTHER: l}.
EnvEntries(l) ==
    {Entry(Str("a"), e, Absent) : e \in {Absent, Null, EmptyEnv, Env("KEY", Str(l)), Env("OTHER", Str(l))}}
        \cup {Entry(Str("a"), Env("KEY", Str(l)), Str(l)), Entry(Str("b"), Env("KEY", Str(l)), Absent)}

ProjectsFile(q) == ObjectText(<<<<"projects", Arr(q)>>>>)
OtherKeyFile == ObjectText(<<<<"lastProject", Str("a")>>>>)

\* The files of one layer that hold the project entries q: {"projects": q},
\* and for no entries also a missing file and a file without a projects key.
Shapes(n) == IF n = 0 THEN {"missing", "other", "projects"} ELSE {"projects"}
FileOf(shape, q) ==
    CASE shape = "missing" -> Missing
      [] shape = "other" -> OtherKeyFile
      [] shape = "projects" -> ProjectsFile(q)

MaxValidate == 2
MaxRuns == 3
MaxChoice == 3

\* Files that are not what the merge expects: no JSON, JSON that is no object,
\* a projects value that is no array, an element that is no object.
BrokenFiles(l) ==
    {Missing, Invalid, OtherKeyFile, ObjectText(<<>>),
     ValueText(Num(5)), ValueText(Num(0)), ValueText(Arr(<<Num(1)>>)), ValueText(Arr(<<Str("projects")>>)),
     ObjectText(<<<<"projects", Null>>>>), ObjectText(<<<<"projects", Str("x")>>>>),
     ObjectText(<<<<"projects", Str("")>>>>), ObjectText(<<<<"projects", Num(1)>>>>),
     ObjectText(<<<<"projects", Entry(Str("a"), Absent, Absent)>>>>),
     ProjectsFile(<<>>), ProjectsFile(<<Num(5)>>),
     ProjectsFile(<<Entry(Str("a"), Absent, Str(l))>>),
     ProjectsFile(<<Entry(Str("a"), Absent, Str(l)), Null>>)}

\* The Claude settings files: env missing, null, a string, {}, {KEY: l}.
EnvFile(v) == ObjectText(<<<<"env", v>>>>)
ClaudeFiles(l) ==
    {Missing, Invalid, OtherKeyFile, ObjectText(<<>>),
     ValueText(Num(5)), ValueText(Arr(<<Num(1)>>)), ValueText(Arr(<<Str("env")>>)),
     EnvFile(Null), EnvFile(Str("x")), EnvFile(EmptyEnv), EnvFile(Env("KEY", Str(l))),
     ObjectText(<<<<"env", Str("x")>>, <<"env", Env("OTHER", Str(l))>>>>)}

\* The dicts handed to validate_projects.
ValidateEntries ==
    {Num(5)} \cup
    {Entry(n, e, Absent) :
        n \in {Absent, Num(7), Str(""), Str("a")},
        e \in {Absent, Null, EmptyEnv, Env("KEY", Str("v")), Env("KEY", Num(1)),
               Obj([k \in EnvKeys |-> IF k = "KEY" THEN Str("v") ELSE Num(1)])}}
\* A projects value that is no array: missing, null, a string, an object.
NoArray == {Absent, Null, Str("x"), Entry(Str("a"), Absent, Absent)}
ValidateArg(v) == Obj([EmptyTop EXCEPT !["projects"] = v])

\* What is typed at the prompt: Ctrl-C or EOF, nothing, a number, other text.
Typed ==
    {[kind |-> "eof"], [kind |-> "empty"], [kind |-> "text"]}
        \cup {[kind |-> "int", n |-> n] : n \in -1..MaxChoice}

\* The files of the runs that reach the prompt, and some that do not.
A(l) == Entry(Str("a"), Env("KEY", Str(l)), Absent)
B(l) == Entry(Str("b"), Absent, Str(l))
ProjectScopeFiles(l) ==
    {Missing, ProjectsFile(<<B(l)>>), ProjectsFile(<<A(l), B(l)>>), ProjectsFile(<<B(l), A(l)>>),
     ProjectsFile(<<A(l), Entry(Str(""), Absent, Absent)>>)}
UserFiles ==
    {Missing, Invalid, ValueText(Arr(<<>>)), ValueText(Null), ObjectText(<<>>),
     ObjectText(<<<<"lastProject", Str("b")>>>>),
     ObjectText(<<<<"lastProject", Num(3)>>>>),
     ProjectsFile(<<A("user"), B("user")>>),
     ObjectText(<<<<"lastProject", Str("b")>>, <<"projects", Arr(<<B("user"), A("user")>>)>>>>),
     ObjectText(<<<<"projects", Arr(<<A("user"), B("user")>>)>>, <<"env", Str("x")>>,
                  <<"lastProject", Str("zz")>>>>),
     ObjectText(<<<<"lastProject", Str("a")>>, <<"projects", Arr(<<A("user")>>)>>,
                  <<"lastProject", Str("b")>>, <<"projects", Arr(<<A("user"), B("user")>>)>>>>)}
UserClaudeFiles == {Missing, EnvFile(Env("OTHER", Str("user"))), ValueText(Num(5))}

AllMissing == [p \in Paths |-> Missing]

Idle ==
    /\ pc = "start"
    /\ config = NotRun /\ remerged = NotRun
    /\ arg = NotRun /\ validated = NotRun
    /\ baseEnv = NotRun /\ launch = NotRun
    /\ config0 = NotRun /\ user0 = NotRun /\ runs = 0

InitFiles(E(_)) ==
    \E n1 \in 0..MaxEntries : \E n2 \in 0..(MaxEntries - n1) : \E n3 \in 0..(MaxEntries - n1 - n2) :
      \E q1 \in [1..n1 -> E("project-local")] : \E s1 \in Shapes(n1) :
        \E q2 \in [1..n2 -> E("project-shared")] : \E s2 \in Shapes(n2) :
          \E q3 \in [1..n3 -> E("user")] : \E s3 \in Shapes(n3) :
            /\ gitRoot \in (IF s1 = "missing" /\ s2 = "missing" THEN BOOLEAN ELSE {TRUE})
            /\ fs = [AllMissing EXCEPT ![ClaudioPath("project-local")] = FileOf(s1, q1),
                                       ![ClaudioPath("project-shared")] = FileOf(s2, q2),
                                       ![ClaudioPath("user")] = FileOf(s3, q3)]

Init == Idle /\ InitFiles(NameEntries)
InitEnv == Idle /\ InitFiles(EnvEntries)

(***************************************************************************)
(* Actions.                                                                *)
(***************************************************************************)
\* cli.py line 36: config = merged_claudio_config()
Merge ==
    /\ pc = "start"
    /\ config' = merged_claudio_config(claudio_config_layers(gitRoot, fs))
    /\ pc' = "merged"
    /\ UNCHANGED <<gitRoot, fs, remerged, arg, validated, baseEnv, launch, config0, user0, runs>>

\* The files in which the returned config is the project-local layer, alone or
\* with a copy of it as the project-shared layer.
AsLayer(cfg, copy) ==
    [AllMissing EXCEPT ![ClaudioPath("project-local")] = json_dumps(cfg),
                       ![ClaudioPath("project-shared")] = IF copy THEN json_dumps(cfg) ELSE Missing]

\* merged_claudio_config() run again on its own output.
Remerge ==
    /\ pc = "merged"
    /\ config.k = "return"
    /\ \E copy \in BOOLEAN :
         remerged' = merged_claudio_config(claudio_config_layers(TRUE, AsLayer(config.v, copy)))
    /\ pc' = "remerged"
    /\ UNCHANGED <<gitRoot, fs, config, arg, validated, baseEnv, launch, config0, user0, runs>>

\* highest_claude_env() on the Claude settings files.
Resolve ==
    /\ pc = "start"
    /\ baseEnv' = highest_claude_env(claude_config_layers(gitRoot, fs))
    /\ pc' = "resolved"
    /\ UNCHANGED <<gitRoot, fs, config, remerged, arg, validated, launch, config0, user0, runs>>

\* validate_projects(arg)
Validate ==
    /\ pc = "start"
    /\ validated' = validate_projects(arg)
    /\ pc' = "validated"
    /\ UNCHANGED <<gitRoot, fs, config, remerged, arg, baseEnv, launch, config0, user0, runs>>

\* One run of the command, with `raw` typed at the prompt if it is shown.
Main ==
    /\ runs < MaxRuns
    /\ \E raw \in Typed :
         \E end \in {main(gitRoot, fs, raw)} :
             /\ pc' = end.pc
             /\ config' = end.config
             /\ arg' = IF end.validated = NotRun THEN NotRun ELSE end.config.v
             /\ validated' = end.validated
             /\ baseEnv' = end.baseEnv
             /\ launch' = end.launch
             /\ fs' = end.fs
    /\ runs' = runs + 1
    /\ UNCHANGED <<gitRoot, remerged, config0, user0>>

NextMerge == Merge \/ Remerge

Spec == Init /\ [][NextMerge]_vars
SpecEnv == InitEnv /\ [][NextMerge]_vars

InitLoad ==
    /\ Idle
    /\ \E c1 \in BrokenFiles("project-local") :
         \E c2 \in BrokenFiles("project-shared") :
           \E c3 \in BrokenFiles("user") :
             /\ gitRoot \in (IF c1 = Missing /\ c2 = Missing THEN BOOLEAN ELSE {TRUE})
             /\ fs = [AllMissing EXCEPT ![ClaudioPath("project-local")] = c1,
                                        ![ClaudioPath("project-shared")] = c2,
                                        ![ClaudioPath("user")] = c3]
SpecLoad == InitLoad /\ [][NextMerge]_vars

InitResolve ==
    /\ Idle
    /\ \E c1 \in ClaudeFiles("project-local") :
         \E c2 \in ClaudeFiles("project-shared") :
           \E c3 \in ClaudeFiles("user") :
             /\ gitRoot \in (IF c1 = Missing /\ c2 = Missing THEN BOOLEAN ELSE {TRUE})
             /\ fs = [AllMissing EXCEPT ![ClaudePath("project-local")] = c1,
                                        ![ClaudePath("project-shared")] = c2,
                                        ![ClaudePath("user")] = c3]
SpecResolve == InitResolve /\ [][Resolve]_vars

InitValidate ==
    /\ pc = "start" /\ gitRoot = FALSE /\ fs = AllMissing
    /\ config = NotRun /\ remerged = NotRun /\ validated = NotRun
    /\ baseEnv = NotRun /\ launch = NotRun
    /\ config0 = NotRun /\ user0 = NotRun /\ runs = 0
    /\ \/ \E v \in NoArray : arg = ValidateArg(v)
       \/ \E n \in 0..MaxValidate : \E q \in [1..n -> ValidateEntries] : arg = ValidateArg(Arr(q))
SpecValidate == InitValidate /\ [][Validate]_vars

\* config0 and user0 record what the merge and load_user_settings() return on
\* the files as they are before the first run.
InitSelect ==
    /\ pc = "start"
    /\ config = NotRun /\ remerged = NotRun /\ arg = NotRun /\ validated = NotRun
    /\ baseEnv = NotRun /\ launch = NotRun /\ runs = 0
    /\ \E c1 \in ProjectScopeFiles("project-local") :
         \E c2 \in ProjectScopeFiles("project-shared") :
           \E c3 \in UserFiles : \E c4 \in UserClaudeFiles :
             /\ gitRoot \in (IF c1 = Missing /\ c2 = Missing THEN BOOLEAN ELSE {TRUE})
             /\ fs = [AllMissing EXCEPT ![ClaudioPath("project-local")] = c1,
                                        ![ClaudioPath("project-shared")] = c2,
                                        ![ClaudioPath("user")] = c3,
                                        ![ClaudePath("user")] = c4]
    /\ config0 = merged_claudio_config(claudio_config_layers(gitRoot, fs))
    /\ user0 = load_user_settings(fs)
SpecSelect == InitSelect /\ [][Main]_vars

(***************************************************************************)
(* What the files say, read off directly (not through the merge).          *)
(***************************************************************************)
Data(l) == _load_json(fs[ClaudioPath(l)])
IsLayer(l) == (l = "user" \/ gitRoot) /\ Truthy(Data(l))
DefinesProjects(l) == IsLayer(l) /\ IsDict(Data(l)) /\ Data(l).o["projects"] # Absent
ProjectList(l) ==
    IF DefinesProjects(l) /\ IsList(Data(l).o["projects"]) THEN Data(l).o["projects"].a ELSE <<>>
Defining == {i \in 1..Len(Labels) : DefinesProjects(Labels[i])}
DefiningLabel == Labels[CHOOSE i \in Defining : \A j \in Defining : i <= j]
DefiningList == IF Defining = {} THEN <<>> ELSE ProjectList(DefiningLabel)
HasStringName(e) == IsDict(e) /\ IsStr(e.o["name"])
StringNames(list) ==
    LET named == SelectSeq(list, HasStringName) IN [i \in 1..Len(named) |-> named[i].o["name"]]
\* Every entry, from the lowest layer to the highest, each layer in file order.
AllEntries == ProjectList("user") \o ProjectList("project-shared") \o ProjectList("project-local")
EntriesNamed(name) == SelectSeq(AllEntries, LAMBDA e : HasStringName(e) /\ e.o["name"] = name)
\* The last of the entries E that has field f, or Absent.
LastWith(E, f) ==
    LET has == {j \in 1..Len(E) : E[j].o[f] # Absent}
    IN  IF has = {} THEN Absent ELSE E[CHOOSE j \in has : \A i \in has : i <= j].o[f]
\* The value of env key k in the last of the entries E whose env sets it, or Absent.
LastEnv(E, k) ==
    LET has == {j \in 1..Len(E) : IsDict(E[j].o["env"]) /\ E[j].o["env"].o[k] # Absent}
    IN  IF has = {} THEN Absent ELSE E[CHOOSE j \in has : \A i \in has : i <= j].o["env"].o[k]
WithEnv(E) == {j \in 1..Len(E) : E[j].o["env"] # Absent}

Merged == pc # "start" /\ config.k = "return"
Output == IF config.v.o["projects"] = Absent THEN <<>> ELSE config.v.o["projects"].a
OutputNames == [i \in 1..Len(Output) |-> Output[i].o["name"]]

(***************************************************************************)
(* Claims about the merge.                                                 *)
(***************************************************************************)
\* C1: the names of the merged projects are exactly the string names of the
\* projects list of the highest-precedence layer that has a projects key, in
\* its order; a project named only in a lower layer is not in the result.
C1_DefiningLayerDecides == Merged => OutputNames = StringNames(DefiningList)

\* C1 witness: project-local or project-shared is the defining layer, the
\* result is not empty, and a lower layer names a project, with a field of its
\* own, that the defining layer does not name.
C1_Witness ==
    /\ Merged /\ Len(Output) > 0
    /\ \E i \in 1..2 : \E j \in (i + 1)..3 :
         /\ DefiningLabel = Labels[i]
         /\ \E x \in 1..Len(ProjectList(Labels[j])) :
              LET e == ProjectList(Labels[j])[x]
              IN  /\ HasStringName(e) /\ e.o["model"] # Absent
                  /\ \A y \in 1..Len(DefiningList) : DefiningList[y].o["name"] # e.o["name"]

\* C6: the names of the merged projects are pairwise distinct.
C6_NamesDistinct ==
    Merged => \A i, j \in 1..Len(Output) : i # j => Output[i].o["name"] # Output[j].o["name"]

\* C9: an entry without a valid non-empty string name is skipped: the result
\* holds no project named "" and equals the merge of the files with every
\* such entry taken out.
Named(e) == HasStringName(e) /\ e.o["name"] # Str("")
WithoutUnnamed(file) ==
    IF file.f = "object"
    THEN ObjectText([i \in 1..Len(file.members) |->
            IF file.members[i][1] = "projects" /\ IsList(file.members[i][2])
            THEN <<"projects", Arr(SelectSeq(file.members[i][2].a, Named))>>
            ELSE file.members[i]])
    ELSE file
C9_UnnamedEntriesSkipped ==
    Merged =>
        /\ \A i \in 1..Len(Output) : Output[i].o["name"] # Str("")
        /\ config = merged_claudio_config(
                        claudio_config_layers(gitRoot, [p \in Paths |-> WithoutUnnamed(fs[p])]))

\* C2: when every env among the entries of a merged project is a mapping, the
\* merged env holds each key some entry sets, with the value of the
\* highest-precedence entry that sets it.
C2_EnvKeyUnion ==
    Merged =>
        \A i \in 1..Len(Output) :
            LET E == EntriesNamed(Output[i].o["name"])
            IN  (WithEnv(E) # {} /\ \A j \in WithEnv(E) : IsDict(E[j].o["env"]))
                    => /\ IsDict(Output[i].o["env"])
                       /\ \A k \in EnvKeys : Output[i].o["env"].o[k] = LastEnv(E, k)

\* C2 witness: the user layer gives project "a" the env {KEY: user}, the
\* project-local layer gives it {OTHER: local}, and the merged project holds both.
C2_Witness ==
    /\ Merged /\ Len(Output) > 0
    /\ ProjectList("user") = <<Entry(Str("a"), Env("KEY", Str("user")), Absent)>>
    /\ ProjectList("project-local") = <<Entry(Str("a"), Env("OTHER", Str("project-local")), Absent)>>
    /\ Output[1].o["env"].o["KEY"] = Str("user")
    /\ Output[1].o["env"].o["OTHER"] = Str("project-local")

\* C3: a field other than env has the value of the highest-precedence entry
\* of that name that has the field; an env that only one entry supplies is
\* that entry's env, whatever its layer.
C3_FieldPrecedence ==
    Merged =>
        \A i \in 1..Len(Output) :
            LET E == EntriesNamed(Output[i].o["name"])
            IN  /\ \A f \in ProjKeys \ {"env"} : Output[i].o[f] = LastWith(E, f)
                /\ WithEnv(E) = {} => Output[i].o["env"] = Absent
                /\ Cardinality(WithEnv(E)) = 1 => Output[i].o["env"] = LastWith(E, "env")

\* C3 witness: the user layer's entry for "a" has a model and an env, the
\* project-local entry for "a" has neither, and the merged project has both.
C3_Witness ==
    /\ Merged /\ Len(Output) = 1
    /\ ProjectList("user") = <<Entry(Str("a"), Env("KEY", Str("user")), Str("user"))>>
    /\ ProjectList("project-local") = <<Entry(Str("a"), Absent, Absent)>>
    /\ Output[1] = Entry(Str("a"), Env("KEY", Str("user")), Str("user"))

\* C7: merging the returned config again, as the only layer or as a layer and
\* its copy, returns the same config.
C7_Idempotent == pc = "remerged" => remerged = config

\* C7 witness: a second merge has run on a result of two different projects,
\* one of them with an env merged from two layers.
C7_Witness ==
    /\ pc = "remerged" /\ Len(Output) = 2
    /\ Output[1].o["name"] # Output[2].o["name"]
    /\ \E i \in 1..2 : /\ IsDict(Output[i].o["env"])
                       /\ \A k \in EnvKeys : Output[i].o["env"].o[k] # Absent

(***************************************************************************)
(* Claims about the loader, the resolver, the validator and the selection. *)
(***************************************************************************)
\* C5: merged_claudio_config returns, whatever the files hold: it never raises.
C5_MergeNeverRaises == pc # "start" => config.k = "return"

\* C8: highest_claude_env returns the path and the env of the highest layer
\* whose env is there and is an object, and (None, {}) when no layer has one.
ClaudeData(l) == _load_json(fs[ClaudePath(l)])
Qualifies(l) ==
    /\ (l = "user" \/ gitRoot) /\ Truthy(ClaudeData(l))
    /\ IsDict(ClaudeData(l)) /\ IsDict(ClaudeData(l).o["env"])
Qualifying == {i \in 1..Len(Labels) : Qualifies(Labels[i])}
FirstQualifying == Labels[CHOOSE i \in Qualifying : \A j \in Qualifying : i <= j]
C8_HighestEnv ==
    (pc = "resolved" /\ baseEnv.k = "return") =>
        IF Qualifying = {} THEN baseEnv.v = [path |-> Null, env |-> EmptyEnv]
        ELSE baseEnv.v = [path |-> ClaudePath(FirstQualifying),
                          env |-> ClaudeData(FirstQualifying).o["env"]]

\* C8 witness: the project-local file has an env that is no object, the
\* project-shared file has no env, and the user file's env is returned.
C8_Witness ==
    /\ pc = "resolved" /\ baseEnv.k = "return"
    /\ IsDict(ClaudeData("project-local")) /\ ClaudeData("project-local").o["env"] \in {Null, Str("x")}
    /\ IsDict(ClaudeData("project-shared")) /\ Truthy(ClaudeData("project-shared"))
    /\ ClaudeData("project-shared").o["env"] = Absent
    /\ baseEnv.v = [path |-> Path("user", ClaudeShared), env |-> Env("KEY", Str("user"))]

\* C4: validate_projects raises ConfigError exactly when projects is missing,
\* no array or empty, or some element is no object, has no non-empty string
\* name, has an env that is no object, or has an env value that is no string;
\* otherwise it returns the projects list it was given.
BadEntry(e) ==
    \/ ~IsDict(e)
    \/ e.o["name"].t # "str" \/ e.o["name"] = Str("")
    \/ e.o["env"] # Absent /\ ~IsDict(e.o["env"])
    \/ IsDict(e.o["env"]) /\ \E k \in EnvKeys : e.o["env"].o[k].t \notin {"absent", "str"}
BadProjects(p) ==
    \/ p = Absent \/ ~IsList(p)
    \/ Len(p.a) = 0
    \/ \E i \in 1..Len(p.a) : BadEntry(p.a[i])
C4_ValidateGuard ==
    pc = "validated" =>
        IF BadProjects(arg.o["projects"])
        THEN validated.k = "raise" /\ validated.exc = "ConfigError"
        ELSE validated = Returned(arg.o["projects"])

\* C4 witness: a list of two valid projects, one of them with an env, came
\* back from validate_projects.
C4_Witness ==
    /\ pc = "validated" /\ validated.k = "return"
    /\ Len(validated.v.a) = 2
    /\ validated.v.a[1].o["env"] = Env("KEY", Str("v"))
    /\ validated.v.a[2].o["env"] = Absent

\* C10: persisting the selection leaves every other key of the user file as
\* it was, never makes a user file without projects the defining layer, and
\* leaves the result of the merge as it was before the first run.
C10_SelectionKeepsConfig ==
    /\ merged_claudio_config(claudio_config_layers(gitRoot, fs)) = config0
    /\ IF IsDict(user0)
       THEN /\ IsDict(load_user_settings(fs))
            /\ \A i \in 1..Len(TopKeys) :
                 TopKeys[i] # "lastProject" =>
                    load_user_settings(fs).o[TopKeys[i]] = user0.o[TopKeys[i]]
       ELSE load_user_settings(fs) = user0
    /\ (IsDict(user0) /\ user0.o["projects"] = Absent) => ~DefinesProjects("user")

\* C10 witness: the user file was missing, two runs have each persisted a
\* selection, the last one "b", and the merge still offers the two projects.
C10_Witness ==
    /\ fs[_user_settings_path] = ObjectText(<<<<"lastProject", Str("b")>>>>)
    /\ user0 = EmptyDict /\ runs >= 2
    /\ pc = "exec" /\ launch = Returned(Null)
    /\ config0.k = "return" /\ config = config0 /\ Len(Output) = 2

====
